---- MODULE Spec2Model ----
(***************************************************************************)
(* Transaction-lifecycle engine of postgres-unit-of-work: one session      *)
(* (PostgresUnitOfWorkSession) owning an Executor slot and an observer     *)
(* registry, the finalize path of commit()/rollback(), and the holders of  *)
(* Executor clones (repositories) that lock the slot.                      *)
(***************************************************************************)
EXTENDS Naturals, Sequences, FiniteSets

\* Bound: the longest observer registry explored.
MaxObservers == 2
\* Bound: how many times the holders of Executor clones lock the slot.
MaxClientOps == 2
\* Bound: how many sessions are begun, one after the other.
MaxSessions == 3

\* The row ids the sessions can generate within the bounds.
MaxRows == MaxSessions * MaxClientOps

\* The components registered as TransactionAware (tests: user_repo, order_repo).
Observers == {"user_repo", "order_repo"}
\* The holders of clones of the session's Executor.
Clients == {"user_repo", "order_repo"}
\* The task that runs commit(self) / rollback(self).
SessionTask == "session"

\* sqlx::Error values the connection layer reports for a rejected statement,
\* commit or rollback.
DbLayerErrors == {"Database", "Io"}
\* sqlx::Error values as a whole: the above plus the one take_transaction makes.
SqlxErrors == DbLayerErrors \cup {"PoolClosed"}

\* TransactionResult<()>: Ok(()) or Err(TransactionError).
OkResult == [variant |-> "Ok", inner |-> "unit"]
Pending == [variant |-> "Pending", inner |-> "unit"]
\* impl From<sqlx::Error> for TransactionError (#[from]), applied by `?`.
FromSqlx(e) == [variant |-> "DatabaseError", inner |-> e]
\* The variants of TransactionError, as an observer callback may return them.
TransactionErrors ==
    {[variant |-> "CommitFailed", inner |-> "msg"],
     [variant |-> "RollbackFailed", inner |-> "msg"]}
    \cup {FromSqlx(e) : e \in SqlxErrors}

VARIABLES
    slot,        \* Executor.tx content: "Some" (the transaction) or "None"
    lock,        \* holder of the Executor's tokio Mutex, or "free"
    registry,    \* session.observers: Vec<Arc<dyn TransactionAware>>
    pc,          \* position of the session: "active" until commit/rollback is invoked
    op,          \* which of commit / rollback consumed the session ("none" before)
    snapshot,    \* the clone of the registry the notification loop iterates
    calls,       \* callbacks invoked so far: <<observer, "on_commit"|"on_rollback">>
    result,      \* value returned by commit()/rollback()
    failure,     \* where the finalize call failed, and at which callback
    txState,     \* the database transaction: open, committed, rolledback, failed
    dbRequests,  \* commit/rollback requests issued on the transaction
    taken,       \* tasks whose take() returned the transaction
    cpc,         \* position of each Executor clone holder
    clientOps,   \* number of lock requests by clone holders so far
    regLock,     \* state of the registry's RwLock between steps
    clones,      \* repositories still holding a clone of the session's Executor
    dbRows,      \* rows committed in the database
    txRows,      \* rows written through the session's transaction
    nextRow,     \* the next fresh row id (Uuid::new_v4)
    dbAtBegin,   \* the committed rows when the session began
    lastRead,    \* the last find_by_id through the Executor and what it returned
    sessions,    \* number of sessions begun on the UnitOfWork
    lastBegin,   \* outcome of the last begin()
    clean,       \* every earlier session ended with Ok from commit()/rollback()
    expected,    \* rows written by the earlier sessions whose commit() returned Ok
    ses,         \* the sessions of one UnitOfWork that exist side by side
    executors,   \* the Arc<Mutex<Option<Transaction>>> objects allocated so far
    registries,  \* the Arc<RwLock<Vec<..>>> objects allocated so far
    beginResult  \* what the last begin() among the side-by-side sessions returned

\* The variables of the one session followed step by step.
soloVars == <<slot, lock, registry, pc, op, snapshot, calls, result, failure,
              txState, dbRequests, taken, cpc, clientOps, regLock, clones,
              dbRows, txRows, nextRow, dbAtBegin, lastRead, sessions,
              lastBegin, clean, expected>>

\* The variables of the sessions that exist side by side.
multiVars == <<ses, executors, registries, beginResult>>

vars == <<soloVars, multiVars>>

\* The variables of the database and of the sequence of sessions.
dbVars == <<dbRows, txRows, nextRow, dbAtBegin, lastRead, sessions, lastBegin,
            clean, expected>>

NoFailure == [at |-> "none", idx |-> 0]
NoRead == [row |-> 0, found |-> FALSE, inTx |-> FALSE]

\* PostgresUnitOfWork::begin succeeded: PostgresUnitOfWorkSession::new(tx).
Init ==
    /\ slot = "Some"
    /\ lock = "free"
    /\ registry = <<>>
    /\ pc = "active"
    /\ op = "none"
    /\ snapshot = <<>>
    /\ calls = <<>>
    /\ result = Pending
    /\ failure = NoFailure
    /\ txState = "open"
    /\ dbRequests = <<>>
    /\ taken = {}
    /\ cpc = [c \in Clients |-> "idle"]
    /\ clientOps = 0
    /\ regLock = "free"
    /\ clones = Clients
    /\ dbRows = {}
    /\ txRows = {}
    /\ nextRow = 1
    /\ dbAtBegin = {}
    /\ lastRead = NoRead
    /\ sessions = 1
    /\ lastBegin = "Ok"
    /\ clean = TRUE
    /\ expected = {}
    /\ ses = <<>>
    /\ executors = <<>>
    /\ registries = <<>>
    /\ beginResult = "none"

(***************************************************************************)
(* Executor                                                                *)
(***************************************************************************)

\* Option::take on the slot: leaves None, returns what was there.
OptionTake(s) == [slot |-> "None", value |-> s]

take_transaction_keeps(s) ==
    [slot |-> s, res |-> IF s = "Some" THEN "Ok" ELSE "PoolClosed"]
\* Executor::take_transaction, once the lock is held:
\* self.tx.lock().await.take().ok_or(sqlx::Error::PoolClosed)
take_transaction(s) ==
    LET t == OptionTake(s)
    IN  [slot |-> t.slot, res |-> IF t.value = "Some" THEN "Ok" ELSE "PoolClosed"]

LockAvailable_always(l) == TRUE
\* tokio::sync::Mutex: lock().await resolves only while nobody holds the guard.
LockAvailable(l) == l = "free"

\* A clone holder calls self.executor.tx.lock() (the field is pub) and awaits.
ClientRequest(c) ==
    /\ c \in clones
    /\ cpc[c] = "idle"
    /\ clientOps < MaxClientOps
    /\ cpc' = [cpc EXCEPT ![c] = "waiting"]
    /\ clientOps' = clientOps + 1
    /\ UNCHANGED <<multiVars, slot, lock, registry, pc, op, snapshot, calls, result,
                   failure, txState, dbRequests, taken, regLock,
                   clones, dbVars>>

\* The awaited lock() resolves: the holder owns the MutexGuard.
ClientLock(c) ==
    /\ cpc[c] = "waiting"
    /\ LockAvailable(lock)
    /\ lock' = c
    /\ cpc' = [cpc EXCEPT ![c] = "locked"]
    /\ UNCHANGED <<multiVars, slot, registry, pc, op, snapshot, calls, result, failure,
                   txState, dbRequests, taken, clientOps, regLock,
                   clones, dbVars>>

BorrowTransaction_unchecked(s) == "Ok"
\* tx_guard.as_mut().ok_or(sqlx::Error::PoolClosed): the borrow of the
\* transaction in the slot, or the error of an empty slot.
BorrowTransaction(s) == IF s = "Some" THEN "Ok" ELSE "PoolClosed"

\* Repository query: tx_guard.as_mut().ok_or(PoolClosed)? and then the
\* statement is sent on the borrowed transaction; on None the guard is dropped
\* by the early return.
ClientBorrow(c) ==
    /\ cpc[c] = "locked"
    /\ IF BorrowTransaction(slot) = "Ok"
         THEN /\ cpc' = [cpc EXCEPT ![c] = "executing"]
              /\ lock' = lock
         ELSE /\ cpc' = [cpc EXCEPT ![c] = "idle"]
              /\ lock' = "free"
    /\ UNCHANGED <<multiVars, slot, registry, pc, op, snapshot, calls, result, failure,
                   txState, dbRequests, taken, clientOps, regLock,
                   clones, dbVars>>

\* The statement's round trip ends with Err (`?` returns it) or it is a
\* statement without effect on the rows (count): the function returns and the
\* guard is dropped.
ClientFinish(c) ==
    /\ cpc[c] = "executing"
    /\ cpc' = [cpc EXCEPT ![c] = "idle"]
    /\ lock' = "free"
    /\ UNCHANGED <<multiVars, slot, registry, pc, op, snapshot, calls, result, failure,
                   txState, dbRequests, taken, clientOps, regLock,
                   clones, dbVars>>

\* UserRepository::create / OrderRepository::create returns Ok: the INSERT of
\* a row with a fresh id was executed on the borrowed transaction.
ClientInsert(c) ==
    /\ cpc[c] = "executing"
    /\ txRows' = txRows \cup {nextRow}
    /\ nextRow' = nextRow + 1
    /\ cpc' = [cpc EXCEPT ![c] = "idle"]
    /\ lock' = "free"
    /\ UNCHANGED <<multiVars, slot, registry, pc, op, snapshot, calls, result, failure,
                   txState, dbRequests, taken, clientOps, regLock, clones,
                   dbRows, dbAtBegin, lastRead, sessions, lastBegin, clean,
                   expected>>

Visible_committed_only(db, tx) == db
\* The SELECT is executed on the borrowed transaction (&mut **tx): it sees the
\* committed rows and the rows the transaction itself wrote.
Visible(db, tx) == db \cup tx

\* UserRepository::find_by_id / OrderRepository::find_by_id of a row id that
\* was generated before returns Ok(Some(..)) or Ok(None).
ClientFind(c, r) ==
    /\ cpc[c] = "executing"
    /\ r < nextRow
    /\ lastRead' = [row |-> r, found |-> r \in Visible(dbRows, txRows),
                    inTx |-> r \in txRows]
    /\ cpc' = [cpc EXCEPT ![c] = "idle"]
    /\ lock' = "free"
    /\ UNCHANGED <<multiVars, slot, registry, pc, op, snapshot, calls, result, failure,
                   txState, dbRequests, taken, clientOps, regLock, clones,
                   dbRows, txRows, nextRow, dbAtBegin, sessions, lastBegin,
                   clean, expected>>

\* What the pub field allows a clone holder besides borrowing: Option::take on
\* the guarded slot, the statement take_transaction runs.
ClientTake(c) ==
    /\ cpc[c] = "locked"
    /\ LET t == OptionTake(slot)
       IN  /\ slot' = t.slot
           /\ taken' = IF t.value = "Some" THEN taken \cup {c} ELSE taken
    /\ cpc' = [cpc EXCEPT ![c] = "idle"]
    /\ lock' = "free"
    /\ UNCHANGED <<multiVars, registry, pc, op, snapshot, calls, result, failure,
                   txState, dbRequests, clientOps, regLock,
                   clones, dbVars>>

(***************************************************************************)
(* PostgresUnitOfWorkSession                                               *)
(***************************************************************************)

\* self.observers.write().push(observer); needs &self, so only while the
\* session has not been moved into commit/rollback.
register_transaction_aware(o) ==
    /\ pc = "active"
    /\ regLock = "free"
    /\ Len(registry) < MaxObservers
    /\ registry' = Append(registry, o)
    /\ UNCHANGED <<multiVars, slot, lock, pc, op, snapshot, calls, result, failure,
                   txState, dbRequests, taken, cpc, clientOps, regLock,
                   clones, dbVars>>

\* commit(self) is invoked: the session value is moved into the call.
commit ==
    /\ pc = "active"
    /\ pc' = "take"
    /\ op' = "commit"
    /\ UNCHANGED <<multiVars, slot, lock, registry, snapshot, calls, result, failure,
                   txState, dbRequests, taken, cpc, clientOps, regLock,
                   clones, dbVars>>

\* rollback(self) is invoked.
rollback ==
    /\ pc = "active"
    /\ pc' = "take"
    /\ op' = "rollback"
    /\ UNCHANGED <<multiVars, slot, lock, registry, snapshot, calls, result, failure,
                   txState, dbRequests, taken, cpc, clientOps, regLock,
                   clones, dbVars>>

\* take_transaction: self.tx.lock().await resolves.
FinLock ==
    /\ pc = "take"
    /\ LockAvailable(lock)
    /\ lock' = SessionTask
    /\ pc' = "taking"
    /\ UNCHANGED <<multiVars, slot, registry, op, snapshot, calls, result, failure,
                   txState, dbRequests, taken, cpc, clientOps, regLock,
                   clones, dbVars>>

AfterTake_ignores_error(res) == "finalize"
\* `?` after take_transaction().await: an Err returns from commit/rollback.
AfterTake(res) == IF res = "Ok" THEN "finalize" ELSE "done"

LockAfterTake_held == SessionTask
\* The MutexGuard in take_transaction is a temporary of the statement
\* self.tx.lock().await.take().ok_or(..): it is dropped when the call returns.
LockAfterTake == "free"

\* take_transaction: .take().ok_or(PoolClosed), the guard (a temporary) is
\* dropped; `?` converts the error with From<sqlx::Error>.
FinTake ==
    /\ pc = "taking"
    /\ LET t == take_transaction(slot)
       IN  /\ slot' = t.slot
           /\ taken' = IF t.res = "Ok" THEN taken \cup {SessionTask} ELSE taken
           /\ pc' = AfterTake(t.res)
           /\ result' = IF t.res = "Ok" THEN result ELSE FromSqlx(t.res)
           /\ failure' = IF t.res = "Ok" THEN failure ELSE [at |-> "take", idx |-> 0]
    /\ lock' = LockAfterTake
    /\ UNCHANGED <<multiVars, registry, op, snapshot, calls, txState, dbRequests, cpc,
                   clientOps, regLock,
                   clones, dbVars>>

AfterDb_ignores_error(ok) == "snapshot"
AfterDb_retries(ok) == IF ok THEN "snapshot" ELSE "finalize"
\* `?` after tx.commit().await / tx.rollback().await.
AfterDb(ok) == IF ok THEN "snapshot" ELSE "done"

\* The state of the transaction after a successful commit / rollback.
Finalized(o) == IF o = "commit" THEN "committed" ELSE "rolledback"

DbRequest_always_commit(o) == "commit"
\* commit() issues tx.commit(), rollback() issues tx.rollback().
DbRequest(o) == o

\* The database after it accepted the request: a commit makes the rows of the
\* transaction part of the committed rows, a rollback discards them.
DbAfter(req, db, tx) == IF req = "commit" THEN db \cup tx ELSE db

\* tx.commit().await? / tx.rollback().await?: the database accepts or rejects.
FinDb(ok, e) ==
    /\ pc = "finalize"
    /\ LET req == DbRequest(op)
       IN  /\ dbRequests' = Append(dbRequests, req)
           /\ txState' = IF ok THEN Finalized(req) ELSE "failed"
           /\ dbRows' = IF ok THEN DbAfter(req, dbRows, txRows) ELSE dbRows
    /\ result' = IF ok THEN result ELSE FromSqlx(e)
    /\ failure' = IF ok THEN failure ELSE [at |-> "db", idx |-> 0]
    /\ pc' = AfterDb(ok)
    /\ UNCHANGED <<multiVars, slot, lock, registry, op, snapshot, calls, taken, cpc,
                   clientOps, regLock, clones, txRows, nextRow, dbAtBegin,
                   lastRead, sessions, lastBegin, clean, expected>>

RECURSIVE SnapshotOf_dedup(_)
SnapshotOf_dedup(reg) ==
    IF reg = <<>> THEN <<>>
    ELSE LET r == SnapshotOf_dedup(SubSeq(reg, 1, Len(reg) - 1))
             x == reg[Len(reg)]
         IN  IF \E i \in 1..Len(r) : r[i] = x THEN r ELSE Append(r, x)
\* Vec::clone of the registry: the same Arcs in the same order.
SnapshotOf(reg) == reg

RegistryGuardAfterSnapshot_held == "read"
\* The read guard of self.observers.read().clone() is a temporary: it is
\* dropped at the end of the let statement, before the loop.
RegistryGuardAfterSnapshot == "free"

\* let observers = self.observers.read().clone();
FinSnapshot ==
    /\ pc = "snapshot"
    /\ regLock = "free"
    /\ snapshot' = SnapshotOf(registry)
    /\ regLock' = RegistryGuardAfterSnapshot
    /\ pc' = "notify"
    /\ UNCHANGED <<multiVars, slot, lock, registry, op, calls, result, failure, txState,
                   dbRequests, taken, cpc, clientOps,
                   clones, dbVars>>

CallbackName_swapped(o) == IF o = "commit" THEN "on_rollback" ELSE "on_commit"
\* commit calls observer.on_commit(), rollback calls observer.on_rollback().
CallbackName(o) == IF o = "commit" THEN "on_commit" ELSE "on_rollback"

NextObserver_reversed(snap, n) == snap[Len(snap) - n]
\* for observer in observers.iter(): the (n+1)-th element after n iterations.
NextObserver(snap, n) == snap[n + 1]

AfterCallbackError_continues == "notify"
\* `?` after observer.on_commit().await / on_rollback().await.
AfterCallbackError == "done"

\* One iteration of the notification loop: the callback is invoked and
\* returns Ok(()) or Err(e), directly or after its body came back from the
\* Executor lock.
FinNotify(ok, e) ==
    /\ pc \in {"notify", "cb_return"}
    /\ Len(calls) < Len(snapshot)
    /\ calls' = Append(calls, <<NextObserver(snapshot, Len(calls)), CallbackName(op)>>)
    /\ IF ok
         THEN pc' = "notify" /\ UNCHANGED <<result, failure>>
         ELSE /\ pc' = AfterCallbackError
              /\ result' = e
              /\ failure' = [at |-> "observer", idx |-> Len(calls) + 1]
    /\ UNCHANGED <<multiVars, slot, lock, registry, op, snapshot, txState, dbRequests,
                   taken, cpc, clientOps, regLock,
                   clones, dbVars>>

\* The loop is exhausted: Ok(()).
FinReturn ==
    /\ pc = "notify"
    /\ Len(calls) >= Len(snapshot)
    /\ result' = OkResult
    /\ pc' = "done"
    /\ UNCHANGED <<multiVars, slot, lock, registry, op, snapshot, calls, failure, txState,
                   dbRequests, taken, cpc, clientOps, regLock,
                   clones, dbVars>>

Next ==
    \/ \E o \in Observers : register_transaction_aware(o)
    \/ commit
    \/ rollback
    \/ FinLock
    \/ FinTake
    \/ \E ok \in BOOLEAN, e \in DbLayerErrors : FinDb(ok, e)
    \/ FinSnapshot
    \/ \E ok \in BOOLEAN, e \in TransactionErrors : FinNotify(ok, e)
    \/ FinReturn
    \/ \E c \in Clients : ClientRequest(c)
    \/ \E c \in Clients : ClientLock(c)
    \/ \E c \in Clients : ClientBorrow(c)
    \/ \E c \in Clients : ClientFinish(c)
    \/ \E c \in Clients : ClientInsert(c)
    \/ \E c \in Clients, r \in 1..MaxRows : ClientFind(c, r)
    \/ \E c \in Clients : ClientTake(c)

Spec == Init /\ [][Next]_vars

(***************************************************************************)
(* Observer callbacks that re-enter the Executor, and the scheduling of    *)
(* the tasks                                                               *)
(***************************************************************************)

\* The holder of the MutexGuard while a callback's body owns it.
CallbackTask == "callback"

\* The callback the loop is about to await is one whose body calls
\* self.executor.tx.lock() on the observer's clone of the Executor (the
\* observers of the tests are the repositories): the session task, which
\* runs the callback, awaits the lock.
CallbackReenter ==
    /\ pc = "notify"
    /\ Len(calls) < Len(snapshot)
    /\ pc' = "cb_waiting"
    /\ UNCHANGED <<multiVars, slot, lock, registry, op, snapshot, calls, result, failure,
                   txState, dbRequests, taken, cpc, clientOps, regLock,
                   clones, dbVars>>

\* The lock() awaited inside the callback resolves.
CallbackLock ==
    /\ pc = "cb_waiting"
    /\ LockAvailable(lock)
    /\ lock' = CallbackTask
    /\ pc' = "cb_locked"
    /\ UNCHANGED <<multiVars, slot, registry, op, snapshot, calls, result, failure,
                   txState, dbRequests, taken, cpc, clientOps, regLock,
                   clones, dbVars>>

\* The callback's body looks at the slot (as_mut() on the guard), finds what
\* the take left and drops the guard.
CallbackRelease ==
    /\ pc = "cb_locked"
    /\ lock' = "free"
    /\ pc' = "cb_return"
    /\ UNCHANGED <<multiVars, slot, registry, op, snapshot, calls, result, failure,
                   txState, dbRequests, taken, cpc, clientOps, regLock,
                   clones, dbVars>>

NextLive ==
    \/ Next
    \/ CallbackReenter
    \/ CallbackLock
    \/ CallbackRelease

\* What the tasks are assumed to do: tokio's Mutex hands the lock to its
\* waiters in the order they asked (a waiter that can get the lock again and
\* again gets it), an awaited database round trip and an awaited callback
\* return, a query that holds the lock runs its statement and drops the guard.
Fairness ==
    /\ SF_vars(FinLock)
    /\ WF_vars(FinTake)
    /\ WF_vars(\E ok \in BOOLEAN, e \in DbLayerErrors : FinDb(ok, e))
    /\ WF_vars(FinSnapshot)
    /\ WF_vars(\E ok \in BOOLEAN, e \in TransactionErrors : FinNotify(ok, e))
    /\ WF_vars(FinReturn)
    /\ SF_vars(CallbackLock)
    /\ WF_vars(CallbackRelease)
    /\ WF_vars(\E c \in Clients : ClientBorrow(c) \/ ClientTake(c))
    /\ WF_vars(\E c \in Clients :
                  \/ ClientFinish(c)
                  \/ ClientInsert(c)
                  \/ \E r \in 1..MaxRows : ClientFind(c, r))

SpecLive == Init /\ [][NextLive]_vars /\ Fairness

(***************************************************************************)
(* PostgresUnitOfWork: sessions begun one after the other, sessions and    *)
(* repositories that are dropped                                           *)
(***************************************************************************)

\* Whether the session value still exists (it is dropped when commit/rollback
\* returns, or by its owner).
SessionHandle == IF pc \in {"done", "dropped"} THEN {} ELSE {SessionTask}

\* The Transaction lives in the Arc<Mutex<Option<..>>>: it is dropped, and so
\* aborted by the transport, when the last Arc goes while the slot holds it.
TxAfterRelease(st, sl, holders) ==
    IF st = "open" /\ sl = "Some" /\ holders = {} THEN "aborted" ELSE st

\* PostgresUnitOfWork::begin after the previous session is over:
\* self.pool.begin().await? and PostgresUnitOfWorkSession::new(tx); the
\* repositories of the new session are built on clones of its Executor.
begin(ok) ==
    /\ pc \in {"done", "dropped"}
    /\ \A c \in Clients : cpc[c] = "idle"
    /\ sessions < MaxSessions
    /\ IF ok
         THEN /\ slot' = "Some"
              /\ lock' = "free"
              /\ registry' = <<>>
              /\ pc' = "active"
              /\ op' = "none"
              /\ snapshot' = <<>>
              /\ calls' = <<>>
              /\ result' = Pending
              /\ failure' = NoFailure
              /\ txState' = "open"
              /\ dbRequests' = <<>>
              /\ taken' = {}
              /\ clientOps' = 0
              /\ regLock' = "free"
              /\ clones' = Clients
              /\ txRows' = {}
              /\ dbAtBegin' = dbRows
              /\ lastRead' = NoRead
              /\ sessions' = sessions + 1
              /\ lastBegin' = "Ok"
              /\ clean' = (clean /\ pc = "done" /\ result = OkResult)
              /\ expected' = IF pc = "done" /\ result = OkResult /\ op = "commit"
                                THEN expected \cup txRows ELSE expected
              /\ UNCHANGED <<multiVars, cpc, dbRows, nextRow>>
         ELSE /\ lastBegin' = "Err"
              /\ UNCHANGED <<multiVars, slot, lock, registry, pc, op, snapshot, calls,
                             result, failure, txState, dbRequests, taken, cpc,
                             clientOps, regLock, clones, dbRows, txRows,
                             nextRow, dbAtBegin, lastRead, sessions, clean,
                             expected>>

\* The session is dropped without commit() or rollback(): there is no Drop
\* impl, its fields (the Executor handle, the registry) are released.
drop_session ==
    /\ pc = "active"
    /\ pc' = "dropped"
    /\ txState' = TxAfterRelease(txState, slot, clones)
    /\ UNCHANGED <<multiVars, slot, lock, registry, op, snapshot, calls, result, failure,
                   dbRequests, taken, cpc, clientOps, regLock, clones, dbVars>>

\* A repository is dropped, and with it its Executor clone (and the
\* transaction, if it took it out of the slot).
ClientDrop(c) ==
    /\ c \in clones
    /\ cpc[c] = "idle"
    /\ clones' = clones \ {c}
    /\ txState' = IF c \in taken /\ txState = "open"
                     THEN "aborted"
                     ELSE TxAfterRelease(txState, slot,
                                         (clones \ {c}) \cup SessionHandle)
    /\ UNCHANGED <<multiVars, slot, lock, registry, pc, op, snapshot, calls, result,
                   failure, dbRequests, taken, cpc, clientOps, regLock, dbVars>>

\* The sessions of NextDb register no observer: the steps are those of Next
\* without register_transaction_aware and the notification loop's body.
NextDb ==
    \/ commit
    \/ rollback
    \/ FinLock
    \/ FinTake
    \/ \E ok \in BOOLEAN, e \in DbLayerErrors : FinDb(ok, e)
    \/ FinSnapshot
    \/ FinReturn
    \/ \E c \in Clients : ClientRequest(c)
    \/ \E c \in Clients : ClientLock(c)
    \/ \E c \in Clients : ClientBorrow(c)
    \/ \E c \in Clients : ClientFinish(c)
    \/ \E c \in Clients : ClientInsert(c)
    \/ \E c \in Clients, r \in 1..MaxRows : ClientFind(c, r)
    \/ \E c \in Clients : ClientTake(c)
    \/ \E ok \in BOOLEAN : begin(ok)
    \/ drop_session
    \/ \E c \in Clients : ClientDrop(c)

SpecDb == Init /\ [][NextDb]_vars


(***************************************************************************)
(* PostgresUnitOfWork: sessions that exist side by side. Each session is   *)
(* the pair of objects PostgresUnitOfWorkSession::new allocates; a query   *)
(* is issued while its session is active, callbacks return Ok and a        *)
(* rejected commit or rollback reports one error (the other cases are      *)
(* those of the one session above).                                        *)
(***************************************************************************)

\* Bound: how many sessions exist side by side.
MaxConcurrent == MaxSessions - 1
\* Bound: the longest registry of a session that exists beside others.
MaxRegistered == MaxObservers - 1

ArcNew_shared(heap) == 1
\* Arc::new(..): an object distinct from every object allocated before.
ArcNew(heap) == Cardinality(DOMAIN heap) + 1

\* The heap after the object `key` was initialised with value v.
Alloc(heap, key, v) ==
    [k \in DOMAIN heap \cup {key} |-> IF k = key THEN v ELSE heap[k]]

\* PostgresUnitOfWorkSession::new(tx): the fields of the new session, with
\* the position of the task that owns it.
NewSession(e, r) ==
    [exec |-> e, obs |-> r, pc |-> "active", op |-> "none",
     snapshot |-> <<>>, calls |-> <<>>, result |-> Pending, regd |-> <<>>]

\* PostgresUnitOfWork::begin: self.pool.begin().await? returns the error, or
\* PostgresUnitOfWorkSession::new(tx) builds Executor::new(tx) and an empty
\* registry.
UowBegin(ok) ==
    /\ IF ok
         THEN /\ Len(ses) < MaxConcurrent
              /\ LET e == ArcNew(executors)
                     r == ArcNew(registries)
                 IN  /\ executors' = Alloc(executors, e,
                                           [slot |-> "Some", lock |-> "free"])
                     /\ registries' = Alloc(registries, r, <<>>)
                     /\ ses' = Append(ses, NewSession(e, r))
              /\ beginResult' = "Ok"
         ELSE /\ beginResult' = "Err"
              /\ UNCHANGED <<ses, executors, registries>>
    /\ UNCHANGED soloVars

\* session.register_transaction_aware(observer) on session i.
SesRegister(i, o) ==
    /\ ses[i].pc = "active"
    /\ Len(registries[ses[i].obs]) < MaxRegistered
    /\ registries' = [registries EXCEPT ![ses[i].obs] = Append(@, o)]
    /\ ses' = [ses EXCEPT ![i].regd = Append(@, o)]
    /\ UNCHANGED <<executors, beginResult, soloVars>>

\* A repository built on a clone of session i's Executor starts a query:
\* self.executor.tx.lock().await resolves.
SesQueryLock(i) ==
    /\ ses[i].pc = "active"
    /\ LockAvailable(executors[ses[i].exec].lock)
    /\ executors' = [executors EXCEPT ![ses[i].exec].lock = "repo"]
    /\ UNCHANGED <<ses, registries, beginResult, soloVars>>

\* The query's statement ran on the borrowed transaction; the guard is dropped.
SesQueryEnd(i) ==
    /\ executors[ses[i].exec].lock = "repo"
    /\ executors' = [executors EXCEPT ![ses[i].exec].lock = "free"]
    /\ UNCHANGED <<ses, registries, beginResult, soloVars>>

\* commit(self) / rollback(self) on session i, up to the return of
\* self.executor.take_transaction().await?.
SesFinalize(i, o) ==
    /\ ses[i].pc = "active"
    /\ LockAvailable(executors[ses[i].exec].lock)
    /\ LET t == take_transaction(executors[ses[i].exec].slot)
       IN  /\ executors' = [executors EXCEPT ![ses[i].exec].slot = t.slot]
           /\ ses' = [ses EXCEPT ![i].op = o,
                                 ![i].pc = AfterTake(t.res),
                                 ![i].result = IF t.res = "Ok" THEN @
                                               ELSE FromSqlx(t.res)]
    /\ UNCHANGED <<registries, beginResult, soloVars>>

\* tx.commit().await? / tx.rollback().await? of session i.
SesDb(i, ok, e) ==
    /\ ses[i].pc = "finalize"
    /\ ses' = [ses EXCEPT ![i].pc = AfterDb(ok),
                          ![i].result = IF ok THEN @ ELSE FromSqlx(e)]
    /\ UNCHANGED <<executors, registries, beginResult, soloVars>>

\* let observers = self.observers.read().clone(); of session i.
SesSnapshot(i) ==
    /\ ses[i].pc = "snapshot"
    /\ ses' = [ses EXCEPT ![i].snapshot = SnapshotOf(registries[ses[i].obs]),
                          ![i].pc = "notify"]
    /\ UNCHANGED <<executors, registries, beginResult, soloVars>>

\* One iteration of session i's notification loop, the callback returning Ok.
SesNotify(i) ==
    /\ ses[i].pc = "notify"
    /\ Len(ses[i].calls) < Len(ses[i].snapshot)
    /\ ses' = [ses EXCEPT ![i].calls =
                  Append(@, <<NextObserver(ses[i].snapshot, Len(ses[i].calls)),
                              CallbackName(ses[i].op)>>)]
    /\ UNCHANGED <<executors, registries, beginResult, soloVars>>

\* Session i's loop is exhausted: Ok(()).
SesReturn(i) ==
    /\ ses[i].pc = "notify"
    /\ Len(ses[i].calls) >= Len(ses[i].snapshot)
    /\ ses' = [ses EXCEPT ![i].result = OkResult, ![i].pc = "done"]
    /\ UNCHANGED <<executors, registries, beginResult, soloVars>>

NextMulti ==
    \/ \E ok \in BOOLEAN : UowBegin(ok)
    \/ \E i \in 1..Len(ses), o \in Observers : SesRegister(i, o)
    \/ \E i \in 1..Len(ses) : SesQueryLock(i)
    \/ \E i \in 1..Len(ses) : SesQueryEnd(i)
    \/ \E i \in 1..Len(ses), o \in {"commit", "rollback"} : SesFinalize(i, o)
    \/ \E i \in 1..Len(ses), ok \in BOOLEAN : SesDb(i, ok, "Database")
    \/ \E i \in 1..Len(ses) : SesSnapshot(i)
    \/ \E i \in 1..Len(ses) : SesNotify(i)
    \/ \E i \in 1..Len(ses) : SesReturn(i)

SpecMulti == Init /\ [][NextMulti]_vars

(***************************************************************************)
(* Properties                                                              *)
(***************************************************************************)

\* Number of calls of callback k received by observer o.
CallsOf(o, k) == Cardinality({i \in 1..Len(calls) : calls[i] = <<o, k>>})

\* The calls were made on the registry entries 1, 2, ... in that order.
CallsFollowRegistry(k) ==
    /\ Len(calls) <= Len(registry)
    /\ \A i \in 1..Len(calls) : calls[i] = <<registry[i], k>>

\* The observers called appear in the order of their registrations.
InRegistrationOrder ==
    \A i, j \in 1..Len(calls) :
        i < j => \E a, b \in 1..Len(registry) :
                    a < b /\ registry[a] = calls[i][1] /\ registry[b] = calls[j][1]

\* C1 as stated: once commit() has returned after a successful underlying
\* commit, every registered observer has received exactly one on_commit call,
\* the calls were made in registration order, and nobody received on_rollback.
C1_EveryObserverOneOnCommit ==
    (pc = "done" /\ op = "commit" /\ txState = "committed") =>
        /\ \A i \in 1..Len(registry) : CallsOf(registry[i], "on_commit") = 1
        /\ InRegistrationOrder
        /\ \A o \in Observers : CallsOf(o, "on_rollback") = 0

\* C1 amended: in a committed session the on_commit calls follow the registry
\* entry by entry (an observer registered k times is called k times), up to
\* and including the first callback that fails; when commit() returns Ok
\* every registry entry has had its call; there is no on_rollback call.
C1_OnCommitFollowsRegistry ==
    (op = "commit" /\ txState = "committed") =>
        /\ CallsFollowRegistry("on_commit")
        /\ (pc = "done" /\ result = OkResult => Len(calls) = Len(registry))
        /\ (failure.at = "observer" => Len(calls) = failure.idx)

C1_Witness ==
    /\ pc = "done" /\ op = "commit" /\ result = OkResult
    /\ Len(registry) = 2 /\ registry[1] # registry[2]
    /\ Len(calls) = 2

\* C2 as stated: once rollback() has returned after a successful underlying
\* rollback, every registered observer has received exactly one on_rollback
\* call, in registration order, and nobody received on_commit.
C2_EveryObserverOneOnRollback ==
    (pc = "done" /\ op = "rollback" /\ txState = "rolledback") =>
        /\ \A i \in 1..Len(registry) : CallsOf(registry[i], "on_rollback") = 1
        /\ InRegistrationOrder
        /\ \A o \in Observers : CallsOf(o, "on_commit") = 0

\* C2 amended: in a rolled-back session the on_rollback calls follow the
\* registry entry by entry, up to and including the first callback that
\* fails; when rollback() returns Ok every registry entry has had its call;
\* there is no on_commit call.
C2_OnRollbackFollowsRegistry ==
    (op = "rollback" /\ txState = "rolledback") =>
        /\ CallsFollowRegistry("on_rollback")
        /\ (pc = "done" /\ result = OkResult => Len(calls) = Len(registry))
        /\ (failure.at = "observer" => Len(calls) = failure.idx)

C2_Witness ==
    /\ pc = "done" /\ op = "rollback" /\ result = OkResult
    /\ Len(registry) = 2 /\ registry[1] # registry[2]
    /\ Len(calls) = 2

\* C3: an on_commit call happens only after the underlying commit succeeded;
\* when the database rejects the commit, commit() has returned the database
\* error, no observer was called, and the session is finished without a
\* committed or rolled-back transaction (Failed).
C3_OnCommitOnlyAfterCommit ==
    /\ (\E i \in 1..Len(calls) : calls[i][2] = "on_commit") =>
            (txState = "committed" /\ dbRequests = <<"commit">>)
    /\ (op = "commit" /\ failure.at = "db") =>
            /\ pc = "done"
            /\ result \in {FromSqlx(e) : e \in DbLayerErrors}
            /\ calls = <<>>
            /\ txState = "failed"

C3_Witness ==
    /\ op = "commit" /\ failure.at = "db"
    /\ Len(registry) = 2

\* C4: an on_rollback call happens only after the underlying rollback
\* succeeded; when the underlying rollback fails, rollback() has returned the
\* error and no observer was called.
C4_OnRollbackOnlyAfterRollback ==
    /\ (\E i \in 1..Len(calls) : calls[i][2] = "on_rollback") =>
            (txState = "rolledback" /\ dbRequests = <<"rollback">>)
    /\ (op = "rollback" /\ failure.at = "db") =>
            /\ pc = "done"
            /\ result \in {FromSqlx(e) : e \in DbLayerErrors}
            /\ calls = <<>>

C4_Witness ==
    /\ op = "rollback" /\ failure.at = "db"
    /\ Len(registry) = 2

\* C5: the transaction receives at most one finalization request, the one of
\* the operation that consumed the session, also after a failure; and once
\* commit or rollback was invoked the other one (or a second call) never is.
C5_OneFinalization ==
    /\ [](/\ Len(dbRequests) <= 1
          /\ \A i \in 1..Len(dbRequests) : dbRequests[i] = op)
    /\ [][op # "none" => op' = op]_vars

C5_Witness ==
    /\ pc = "done" /\ failure.at = "db"
    /\ Len(dbRequests) = 1

\* C6: the slot holds the transaction exactly as long as no take succeeded,
\* at most one take ever succeeds among all tasks sharing the Executor, and an
\* empty slot stays empty.
C6_SlotTakenOnce ==
    /\ []((slot = "Some" <=> taken = {}) /\ Cardinality(taken) <= 1)
    /\ [][slot = "None" => slot' = "None"]_vars

C6_Witness ==
    /\ slot = "None"
    /\ taken \subseteq Clients /\ taken # {}
    /\ failure.at = "take"

\* C7: an empty slot implies that commit() or rollback() of the session was
\* invoked (no clone holder can empty it).
C7_EmptySlotImpliesFinalize ==
    slot = "None" => op # "none"

\* C8: when an observer callback fails, the finalize call has returned that
\* error, the callbacks made are the registry entries up to and including the
\* failing one (later entries got no call), and the commit / rollback that
\* succeeded before is still in effect.
C8_FailFastNotification ==
    failure.at = "observer" =>
        /\ pc = "done"
        /\ result \in TransactionErrors
        /\ Len(calls) = failure.idx
        /\ CallsFollowRegistry(CallbackName(op))
        /\ txState = Finalized(op)
        /\ dbRequests = <<op>>

C8_Witness ==
    /\ failure.at = "observer" /\ failure.idx = 1
    /\ Len(registry) = 2
    /\ pc = "done"

\* C9: a take on the empty slot fails with the unavailable error (PoolClosed)
\* and leaves the slot empty; commit()/rollback() then has returned that error
\* without any request on the transaction and without any callback.
C9_TakeOnEmptySlotFails ==
    failure.at = "take" =>
        /\ pc = "done"
        /\ result = FromSqlx("PoolClosed")
        /\ slot = "None"
        /\ SessionTask \notin taken
        /\ dbRequests = <<>>
        /\ calls = <<>>
        /\ txState = "open"

C9_Witness ==
    /\ failure.at = "take" /\ op = "rollback"
    /\ Len(registry) = 2
    /\ pc = "done"

\* Two errors are structurally distinguishable when their variants differ.
Distinguishable(a, b) == a.variant # b.variant

\* C10: the error returned when the transaction was already taken is
\* structurally distinguishable from every error returned when the database
\* rejects the commit or rollback.
C10_TakeErrorDistinguishable ==
    failure.at = "take" =>
        \A e \in DbLayerErrors : Distinguishable(result, FromSqlx(e))

\* The callback a finalize call of operation o is to make.
ExpectedCallback(o) == IF o = "commit" THEN "on_commit" ELSE "on_rollback"

\* C11: registration does not deduplicate: when commit() / rollback() has
\* returned Ok, an observer registered k times has received k calls of the
\* operation's callback, the i-th call going to the i-th registry entry.
C11_NoDeduplication ==
    (pc = "done" /\ result = OkResult) =>
        /\ Len(calls) = Len(registry)
        /\ \A i \in 1..Len(calls) : calls[i] = <<registry[i], ExpectedCallback(op)>>
        /\ \A o \in Observers :
              CallsOf(o, ExpectedCallback(op)) =
                  Cardinality({i \in 1..Len(registry) : registry[i] = o})

C11_Witness ==
    /\ pc = "done" /\ result = OkResult /\ op = "commit"
    /\ Len(registry) = 2 /\ registry[1] = registry[2]
    /\ CallsOf(registry[1], "on_commit") = 2

\* The tasks that own the Executor's MutexGuard according to their position.
Holding ==
    {c \in Clients : cpc[c] \in {"locked", "executing"}}
        \cup (IF pc = "taking" THEN {SessionTask} ELSE {})

\* C12: at most one task holds the Executor lock and at most one statement
\* is executing on the transaction; a query that waits for the lock while
\* another task holds it stays waiting until the lock is released.
C12_QueriesSerialized ==
    /\ [](/\ Cardinality(Holding) <= 1
          /\ Cardinality({c \in Clients : cpc[c] = "executing"}) <= 1
          /\ (Holding # {} => lock \in Holding))
    /\ [][\A c \in Clients :
            (cpc[c] = "waiting" /\ Holding # {}) => cpc'[c] = "waiting"]_vars

C12_Witness ==
    \E c1, c2 \in Clients :
        c1 # c2 /\ cpc[c1] = "executing" /\ cpc[c2] = "waiting"

IsCommitted == op = "commit" /\ txState = "committed"
IsRolledBack == op = "rollback" /\ txState = "rolledback"
IsFailed ==
    /\ failure.at \in {"take", "db"}
    /\ txState \in {"open", "failed"}
    /\ result \notin {Pending, OkResult}

\* C18: a finalize call ends in exactly one of Committed, RolledBack and
\* Failed, every failure ends the call, the session never becomes Active
\* again, and after the call returned nothing of the session changes (no
\* notification, registration or finalization).
C18_StateMachine ==
    /\ [](pc = "done" =>
            /\ IsCommitted \/ IsRolledBack \/ IsFailed
            /\ ~(IsCommitted /\ IsRolledBack)
            /\ ~(IsCommitted /\ IsFailed)
            /\ ~(IsRolledBack /\ IsFailed))
    /\ [](failure.at # "none" => pc = "done")
    /\ [][pc # "active" => pc' # "active"]_vars
    /\ [][pc = "done" =>
            UNCHANGED <<pc, op, registry, snapshot, calls, dbRequests, txState,
                        result, failure>>]_vars

C18_Witness ==
    /\ pc = "done" /\ IsFailed /\ failure.at = "db" /\ op = "rollback"
    /\ \E c \in Clients : cpc[c] = "waiting"

\* C19: the registry is snapshotted once, after the underlying commit /
\* rollback succeeded and before the first callback; the observers called
\* are the snapshot's, the snapshot is the registry, it does not change
\* during the loop, and the registry lock is free while callbacks run.
C19_SnapshotOnce ==
    /\ [](pc = "notify" =>
            /\ snapshot = registry
            /\ txState = Finalized(op)
            /\ regLock = "free")
    /\ [](pc \in {"active", "take", "taking", "finalize", "snapshot"} =>
            snapshot = <<>> /\ calls = <<>>)
    /\ [](/\ Len(calls) <= Len(snapshot)
          /\ \A i \in 1..Len(calls) : calls[i][1] = snapshot[i])
    /\ [](pc = "done" /\ result = OkResult => Len(calls) = Len(snapshot))
    /\ [][pc = "notify" => snapshot' = snapshot /\ registry' = registry]_vars

C19_Witness ==
    /\ pc = "notify" /\ Len(calls) = 1 /\ Len(snapshot) = 2
    /\ regLock = "free"

\* C20: the session task holds the Executor lock only between acquiring it
\* and the take; during the commit / rollback round trip and the callbacks
\* the lock is not the session's, the slot is empty, and a waiting task gets
\* the lock as soon as no other holder has it.
C20_LockOnlyForTake ==
    /\ lock = SessionTask => pc = "taking"
    /\ pc \in {"finalize", "snapshot", "notify"} =>
            /\ lock # SessionTask
            /\ slot = "None"
            /\ \A c \in Clients :
                  (cpc[c] = "waiting" /\ Holding = {}) => ENABLED ClientLock(c)

C20_Witness ==
    /\ pc = "notify" /\ Len(calls) = 1
    /\ slot = "None"
    /\ \E c \in Clients : cpc[c] = "locked"

\* C13: after commit() returned Ok the rows written through the session are
\* committed, and a session begun afterwards finds every row written by an
\* earlier session whose commit() returned Ok.
C13_CommitDurable ==
    /\ (pc = "done" /\ op = "commit" /\ result = OkResult) => txRows \subseteq dbRows
    /\ expected \subseteq dbRows
    /\ lastRead.row \in expected => lastRead.found

C13_Witness ==
    /\ sessions = 2
    /\ lastRead.row \in expected /\ lastRead.found

\* C14: after rollback() returned Ok none of the rows written through the
\* session is committed and the committed rows are those from before the
\* session; a session begun afterwards does not find a row that only a
\* rolled-back session wrote.
C14_RollbackAtomic ==
    /\ (pc = "done" /\ op = "rollback" /\ result = OkResult) =>
            (dbRows = dbAtBegin /\ txRows \cap dbRows = {})
    /\ (clean /\ lastRead.row # 0 /\ ~lastRead.inTx /\ lastRead.row \notin expected) =>
            ~lastRead.found

C14_Witness ==
    /\ sessions = 2 /\ clean
    /\ lastRead.row # 0 /\ ~lastRead.inTx /\ lastRead.row \notin expected
    /\ ~lastRead.found

\* C16: when every earlier session ended with Ok from commit() or
\* rollback(), the committed rows are exactly the rows written by the
\* sessions that committed: a later session finds those and no row of a
\* rolled-back session.
C16_ExactlyCommittedRows ==
    /\ (clean /\ pc \in {"active", "take", "taking", "finalize"}) => dbRows = expected
    /\ (clean /\ pc = "done" /\ result = OkResult) =>
            dbRows = expected \cup (IF op = "commit" THEN txRows ELSE {})
    /\ (clean /\ lastRead.row # 0 /\ ~lastRead.inTx) =>
            (lastRead.found <=> lastRead.row \in expected)

C16_Witness ==
    /\ sessions = 3 /\ clean /\ pc = "active"
    /\ expected = {1} /\ nextRow = 3
    /\ lastRead.row = 2 /\ ~lastRead.found

\* C17: a session dropped without commit() or rollback() has its transaction
\* aborted (it does not stay open) and none of its rows is committed.
C17_DroppedSessionAborts ==
    pc = "dropped" => (txState = "aborted" /\ txRows \cap dbRows = {})

\* C21: finalization never deadlocks: a commit() / rollback() invoked while
\* clone holders issue queries eventually obtains the Executor lock and
\* eventually returns, also when an observer callback re-enters the Executor
\* lock (the callback gets the lock and comes back).
C21_FinalizeTerminates ==
    /\ (pc = "take") ~> (pc = "taking")
    /\ (pc = "cb_waiting") ~> (pc = "cb_return")
    /\ (pc # "active") ~> (pc = "done")

C21_Witness ==
    /\ pc = "cb_return" /\ op = "commit"
    /\ Len(snapshot) = 2 /\ Len(calls) = 1
    /\ clientOps = MaxClientOps
    /\ \E c \in Clients : cpc[c] = "waiting"

\* C22: a repository query executes its statement only while it holds the
\* lock on a slot that still has the open transaction, before the take of a
\* finalize call, and its effect happens in the step that ends it and frees
\* the lock; the rows written so belong to the transaction that is committed
\* or rolled back. A query that gets the lock on an empty slot ends with
\* PoolClosed and changes nothing of the database.
C22_QueriesAroundTake ==
    /\ [](\A c \in Clients :
            cpc[c] = "executing" =>
                /\ lock = c
                /\ slot = "Some"
                /\ txState = "open"
                /\ taken = {}
                /\ pc \in {"active", "take"})
    /\ [][(txRows' # txRows \/ lastRead' # lastRead) =>
            \E c \in Clients :
                /\ cpc[c] = "executing" /\ lock = c
                /\ cpc'[c] = "idle" /\ lock' = "free"]_vars
    /\ [][\A c \in Clients :
            (cpc[c] = "locked" /\ slot = "None" /\ cpc'[c] # cpc[c]) =>
                /\ BorrowTransaction(slot) = "PoolClosed"
                /\ cpc'[c] = "idle"
                /\ lock' = "free"
                /\ UNCHANGED <<txRows, dbRows, nextRow, lastRead, txState,
                               dbRequests>>]_vars
    /\ [](txState = "committed" => dbRows = txRows)
    /\ [](txState = "rolledback" => dbRows = {})

C22_Witness ==
    /\ txState = "committed" /\ txRows # {}
    /\ slot = "None"
    /\ \E c \in Clients : cpc[c] = "locked"

\* What a session's owner and its observers can see of session i: the slot
\* of its Executor, its registry and the callbacks made for it.
SessionView(se, ex, rg, i) ==
    [pc |-> se[i].pc, slot |-> ex[se[i].exec].slot,
     registry |-> rg[se[i].obs], calls |-> se[i].calls]

\* C23: a successful begin() adds one session that is active with a
\* populated slot and an empty registry and leaves the others as they are; a
\* failed begin() returns the error and creates nothing; a step of one
\* session (register, query, commit, rollback) changes no other session's
\* slot, registry or callbacks, and the observers a session calls are the
\* ones registered on it.
C23_SessionsIndependent ==
    /\ [][Len(ses') # Len(ses) =>
            /\ Len(ses') = Len(ses) + 1
            /\ beginResult' = "Ok"
            /\ SessionView(ses', executors', registries', Len(ses')) =
                   [pc |-> "active", slot |-> "Some", registry |-> <<>>,
                    calls |-> <<>>]
            /\ \A i \in 1..Len(ses) :
                   /\ ses'[i] = ses[i]
                   /\ SessionView(ses', executors', registries', i) =
                          SessionView(ses, executors, registries, i)]_vars
    /\ [][(beginResult' = "Err" /\ beginResult # "Err") =>
            UNCHANGED <<ses, executors, registries>>]_vars
    /\ [][\A i, j \in 1..Len(ses) :
            (/\ i # j
             /\ \/ ses'[i] # ses[i]
                \/ executors'[ses[i].exec] # executors[ses[i].exec]
                \/ registries'[ses[i].obs] # registries[ses[i].obs]) =>
                SessionView(ses', executors', registries', j) =
                    SessionView(ses, executors, registries, j)]_vars
    /\ [](\A i, j \in 1..Len(ses) :
            i # j => (ses[i].exec # ses[j].exec /\ ses[i].obs # ses[j].obs))
    /\ [](\A i \in 1..Len(ses) :
            /\ registries[ses[i].obs] = ses[i].regd
            /\ Len(ses[i].calls) <= Len(ses[i].regd)
            /\ \A k \in 1..Len(ses[i].calls) :
                   ses[i].calls[k][1] = ses[i].regd[k])

C23_Witness ==
    /\ Len(ses) = 2 /\ beginResult = "Err"
    /\ ses[1].pc = "done" /\ ses[1].op = "commit" /\ ses[1].result = OkResult
    /\ ses[1].calls = <<<<"user_repo", "on_commit">>>>
    /\ ses[2].pc = "active" /\ ses[2].regd = <<"order_repo">>
    /\ SessionView(ses, executors, registries, 2) =
           [pc |-> "active", slot |-> "Some", registry |-> <<"order_repo">>,
            calls |-> <<>>]
    /\ executors[ses[2].exec].lock = "repo"

====
